---- MODULE Spec2Model ----
(***************************************************************************)
(* Model of dd-rx-state (src/lib/index.ts): reducer primitives, the       *)
(* reducer registry, toState$, assemble$ and the Store; and of the RxState *)
(* facade with watchers (src/unnamed/part_000).                            *)
(*                                                                         *)
(* JavaScript values are tagged records; objects live on an append-only   *)
(* heap and are referred to by reference, so that `===` on objects is     *)
(* reference identity.  An object is the sequence of its own enumerable   *)
(* properties in insertion order.                                          *)
(*                                                                         *)
(* store.state$ is a cold observable: every subscription runs its own     *)
(* pipeline (its own scan accumulators, distinctUntilChanged keys and     *)
(* combineLatest slots) and registers its own observers on the Subject.   *)
(*                                                                         *)
(* Spec is the Store alone; SpecRx is a Store with an RxState constructed *)
(* over it, its watchers, cancel tokens and the debounced sweep.           *)
(***************************************************************************)
EXTENDS Integers, Sequences, FiniteSets, TLC

VARIABLES
  cfg,         \* the StreamToState the Store was created with
  heap,        \* objects allocated so far
  subs,        \* subscriptions to store.state$; subs[1] is the Store's own
  observers,   \* actionIn$.observers, in subscription order
  stopped,     \* actionIn$.isStopped
  state,       \* StoreImpl.state
  dispatched,  \* actions dispatched before destruct(), in order
  late,        \* number of dispatch calls made after destruct()
  spies,       \* subscribers of store.action$: the actions each has received
  thrown,      \* the error the last call raised, "" when it returned
  returned,    \* the holder the last watch call returned, 0 otherwise
  rx,          \* the RxState constructed over the Store, if any
  tokens,      \* the Subjects callers pass to watch as `until`
  last         \* the last operation and the state it started from

vars == <<cfg, heap, subs, observers, stopped, state, dispatched, late, spies,
          thrown, returned, rx, tokens, last>>

\* ---------------------------------------------------------------- bounds

MaxDispatch == 2
MaxSubs == 1
MaxSpies == 1
MaxActs == 1
MaxTokens == 1
MaxObservers == 1
MaxHolders == 2

\* ---------------------------------------------------------------- values

Undef == [t |-> "undef", v |-> 0]
Null == [t |-> "null", v |-> 0]
Num(n) == [t |-> "num", v |-> n]
Ref(r) == [t |-> "ref", v |-> r]

IsRef(x) == x.t = "ref"

\* The completion of a call that threw instead of returning a value.
Thrown == [t |-> "thrown", v |-> 0]

\* `!x`: undefined, null and 0 are the falsy values of the model.
Falsy(x) == x.t \in {"undef", "null"} \/ (x.t = "num" /\ x.v = 0)

\* --------------------------------------------------------------- objects

Entry(k, x) == [k |-> k, v |-> x]

Keys(o) == {o[i].k : i \in 1..Len(o)}

Idx(o, k) == CHOOSE i \in 1..Len(o) : o[i].k = k

\* o[k]; undefined when o has no own property k.
Get(o, k) == IF k \in Keys(o) THEN o[Idx(o, k)].v ELSE Undef

\* o[k] = x: an existing key keeps its position, a new key is appended.
Put(o, k, x) ==
  IF k \in Keys(o) THEN [o EXCEPT ![Idx(o, k)].v = x] ELSE Append(o, Entry(k, x))

RECURSIVE ObjectAssign(_, _)
\* Object.assign(into, from) on property lists.
ObjectAssign(into, from) ==
  IF Len(from) = 0 THEN into
  ELSE ObjectAssign(Put(into, Head(from).k, Head(from).v), Tail(from))

\* The own enumerable properties of x: none for a primitive.
ObjOf(h, x) == IF IsRef(x) THEN h[x.v] ELSE <<>>

\* x[k] for a value x.
Prop(h, x, k) == Get(ObjOf(h, x), k)

\* A function result: the value and the heap after the call.
Keep(h, x) == [heap |-> h, val |-> x]

\* A newly built object.
Alloc(h, o) == [heap |-> Append(h, o), val |-> Ref(Len(h) + 1)]

\* ------------------------------------------------------------- equality

RECURSIVE Json(_, _), JsonProps(_, _)
\* JSON.stringify(x) as a tree: the properties in insertion order, those whose
\* value is undefined left out.
Json(h, x) ==
  IF IsRef(x) THEN [t |-> "obj", v |-> 0, o |-> JsonProps(h, h[x.v])]
  ELSE [t |-> x.t, v |-> x.v, o |-> <<>>]

JsonProps(h, o) ==
  IF Len(o) = 0 THEN <<>>
  ELSE (IF Head(o).v.t = "undef" THEN <<>> ELSE <<Entry(Head(o).k, Json(h, Head(o).v))>>)
       \o JsonProps(h, Tail(o))

jsonEqual(h, aa, bb) == Json(h, aa) = Json(h, bb)

\* ---------------------------------------------------- reducer primitives

\* setPropertyIfNotSame that copies also when state[key] is value.
setPropertyIfNotSame_always(h, st, key, value) ==
  IF Falsy(st) THEN Keep(h, st)
  ELSE Alloc(h, ObjectAssign(ObjectAssign(<<>>, ObjOf(h, st)), <<Entry(key, value)>>))

\* setPropertyIfNotEqual that compares by reference only.
setPropertyIfNotEqual_byReference(h, st, key, value) ==
  IF Falsy(st) \/ Prop(h, st, key) = value THEN Keep(h, st)
  ELSE Alloc(h, ObjectAssign(ObjectAssign(<<>>, ObjOf(h, st)), <<Entry(key, value)>>))

\* setPropertyIfNotSame that builds the new state from the property alone.
setPropertyIfNotSame_dropRest(h, st, key, value) ==
  IF Falsy(st) \/ Prop(h, st, key) = value THEN Keep(h, st)
  ELSE Alloc(h, <<Entry(key, value)>>)

setPropertyIfNotSame(h, st, key, value) ==
  IF Falsy(st) \/ Prop(h, st, key) = value THEN Keep(h, st)
  ELSE Alloc(h, ObjectAssign(ObjectAssign(<<>>, ObjOf(h, st)), <<Entry(key, value)>>))

setPropertyIfNotEqual(h, st, key, value) ==
  IF Falsy(st) \/ Prop(h, st, key) = value \/ jsonEqual(h, Prop(h, st, key), value)
  THEN Keep(h, st)
  ELSE Alloc(h, ObjectAssign(ObjectAssign(<<>>, ObjOf(h, st)), <<Entry(key, value)>>))

redSet(h, st, value) == Keep(h, value)

\* redMerge that assigns the properties of value to state itself.
redMerge_inPlace(h, st, value) ==
  LET s1 == IF Falsy(st) THEN Alloc(h, <<>>) ELSE Keep(h, st)
      v1 == IF Falsy(value) THEN Alloc(s1.heap, <<>>) ELSE Keep(s1.heap, value)
      vo == ObjOf(v1.heap, v1.val)
      same == /\ IsRef(s1.val)
              /\ IsRef(v1.val)
              /\ \A i \in 1..Len(vo) : Prop(v1.heap, s1.val, vo[i].k) = vo[i].v
  IN IF same THEN Keep(v1.heap, s1.val)
     ELSE IF IsRef(s1.val)
     THEN Keep([v1.heap EXCEPT ![s1.val.v] = ObjectAssign(@, vo)], s1.val)
     ELSE Alloc(v1.heap, ObjectAssign(<<>>, vo))

\* redMerge that always builds the merged object.
redMerge_alwaysNew(h, st, value) ==
  LET s1 == IF Falsy(st) THEN Alloc(h, <<>>) ELSE Keep(h, st)
      v1 == IF Falsy(value) THEN Alloc(s1.heap, <<>>) ELSE Keep(s1.heap, value)
  IN Alloc(v1.heap, ObjectAssign(ObjectAssign(<<>>, ObjOf(v1.heap, s1.val)),
                                 ObjOf(v1.heap, v1.val)))

\* redMerge that returns a copy of value when something differs.
redMerge_replace(h, st, value) ==
  LET vo == ObjOf(h, value)
  IN IF IsRef(st) /\ IsRef(value) /\ \A i \in 1..Len(vo) : Prop(h, st, vo[i].k) = vo[i].v
     THEN Keep(h, st)
     ELSE Alloc(h, ObjectAssign(<<>>, vo))

redMerge(h, st, value) ==
  LET s1 == IF Falsy(st) THEN Alloc(h, <<>>) ELSE Keep(h, st)
      v1 == IF Falsy(value) THEN Alloc(s1.heap, <<>>) ELSE Keep(s1.heap, value)
      vo == ObjOf(v1.heap, v1.val)
      same == /\ IsRef(s1.val)
              /\ IsRef(v1.val)
              /\ \A i \in 1..Len(vo) : Prop(v1.heap, s1.val, vo[i].k) = vo[i].v
  IN IF same THEN Keep(v1.heap, s1.val)
     ELSE Alloc(v1.heap, ObjectAssign(ObjectAssign(<<>>, ObjOf(v1.heap, s1.val)), vo))

\* redMergeProperty_ that puts value itself, not the merge, under key.
redMergeProperty_replace(h, key, st, value) ==
  LET s1 == IF Falsy(st) THEN Alloc(h, <<>>) ELSE Keep(h, st)
      nested == Prop(s1.heap, s1.val, key)
      merged == redMerge(s1.heap, nested, value)
  IN IF nested = merged.val THEN Keep(merged.heap, s1.val)
     ELSE Alloc(merged.heap,
                ObjectAssign(ObjectAssign(<<>>, ObjOf(merged.heap, s1.val)),
                             <<Entry(key, value)>>))

redMergeProperty_(h, key, st, value) ==
  LET s1 == IF Falsy(st) THEN Alloc(h, <<>>) ELSE Keep(h, st)
      nested == Prop(s1.heap, s1.val, key)
      merged == redMerge(s1.heap, nested, value)
  IN IF nested = merged.val THEN Keep(merged.heap, s1.val)
     ELSE Alloc(merged.heap,
                ObjectAssign(ObjectAssign(<<>>, ObjOf(merged.heap, s1.val)),
                             <<Entry(key, merged.val)>>))

\* ---------------------------------------------------- reducer registry

\* A handler of an ActionHandlerMap: one of the library's value reducers, or
\* (op = "throw") a ValueReducer of the caller that throws.
Handler(type, op, key) == [type |-> type, op |-> op, key |-> key]

Types(map) == {map[i].type : i \in 1..Len(map)}

HandlerOf(map, type) == map[CHOOSE i \in 1..Len(map) : map[i].type = type]

ApplyHandler(hd, h, st, value) ==
  CASE hd.op = "setSame" -> setPropertyIfNotSame(h, st, hd.key, value)
    [] hd.op = "setEqual" -> setPropertyIfNotEqual(h, st, hd.key, value)
    [] hd.op = "set" -> redSet(h, st, value)
    [] hd.op = "merge" -> redMerge(h, st, value)
    [] hd.op = "mergeProperty" -> redMergeProperty_(h, hd.key, st, value)
    [] hd.op = "throw" -> Keep(h, Thrown)

\* The result of reducers_(map); called: whether a handler was invoked.
Reduced(r, called) == [heap |-> r.heap, val |-> r.val, called |-> called]

\* reducers_ that falls back on the first handler for an unregistered type.
reducers_default(map, h, st, action) ==
  IF action.type \in Types(map)
  THEN Reduced(ApplyHandler(HandlerOf(map, action.type), h, st, action.value), TRUE)
  ELSE IF Len(map) = 0 THEN Reduced(Keep(h, st), FALSE)
  ELSE Reduced(ApplyHandler(map[1], h, st, action.value), TRUE)

\* const handler = handlers[action.type]; return handler ? handler(state, action.value) : state
reducers_(map, h, st, action) ==
  IF action.type \in Types(map)
  THEN Reduced(ApplyHandler(HandlerOf(map, action.type), h, st, action.value), TRUE)
  ELSE Reduced(Keep(h, st), FALSE)

\* ------------------------------------------------------- configurations

\* Objects that exist before the Store is created: the initial states and
\* the payload objects callers dispatch.
InitHeap ==
  << <<Entry("a", Num(0)), Entry("d", Null), Entry("f", Null)>>,
     <<Entry("e", Num(0)), Entry("g", Num(0))>>,
     <<Entry("h", Num(0))>>,
     <<Entry("e", Num(1))>>,
     <<Entry("g", Num(1))>>,
     <<Entry("e", Num(0)), Entry("g", Num(0))>> >>

\* One input of the assembly: a toState$ stream (stream = TRUE) or a plain value.
Node(stream, key, init, handlers) ==
  [stream |-> stream, key |-> key, init |-> init, handlers |-> handlers]

ParentHandlers == <<Handler("SetA", "setSame", "a"), Handler("SetD", "setSame", "d")>>
NestedHandlers == <<Handler("SetE", "setSame", "e"), Handler("ActMerge", "merge", "")>>
OtherHandlers == <<Handler("SetH", "setSame", "h")>>
ResetHandlers == NestedHandlers \o <<Handler("Reset", "set", "")>>

BaseNode(stream) == Node(stream, "", Ref(1), IF stream THEN ParentHandlers ELSE <<>>)
PartD == Node(TRUE, "d", Ref(2), NestedHandlers)
PartReset == Node(TRUE, "d", Ref(2), ResetHandlers)
PartF(stream) == Node(TRUE = stream, "f", Ref(3), IF stream THEN OtherHandlers ELSE <<>>)

\* cfg.nodes[1] is the base, cfg.nodes[i + 1] the i-th entry of parts.
Configs ==
  {[assembled |-> FALSE, nodes |-> <<Node(TRUE, "", Ref(2), NestedHandlers)>>]}
  \cup {[assembled |-> TRUE, nodes |-> <<BaseNode(b)>>] : b \in BOOLEAN}
  \cup {[assembled |-> TRUE, nodes |-> <<BaseNode(b)>> \o ps] :
          b \in BOOLEAN, ps \in {<<PartD>>, <<PartD, PartF(TRUE)>>, <<PartD, PartF(FALSE)>>}}

NNodes == Len(cfg.nodes)
NParts == NNodes - 1
PartKey(i) == cfg.nodes[i + 1].key
PartKeys == {PartKey(i) : i \in 1..NParts}

Action(type, value) == [type |-> type, value |-> value]

NoAction == Action("", Undef)

Payloads(type) ==
  CASE type = "SetD" -> {Null, Ref(4)}
    [] type = "ActMerge" -> {Ref(4), Ref(5)}
    [] type = "Reset" -> {Ref(6)}
    [] type = "SomeAction" -> {Num(1)}
    [] OTHER -> {Num(0), Num(1)}

ActionTypes == UNION {Types(cfg.nodes[n].handlers) : n \in 1..NNodes} \cup {"SomeAction"}

Actions == {Action(t, x) : t \in ActionTypes, x \in UNION {Payloads(t2) : t2 \in ActionTypes}}
             \cap UNION {{Action(t, x) : x \in Payloads(t)} : t \in ActionTypes}

\* ----------------------------------------------------- RxState: watchers

\* A getter passed to watch: its identity, its source text (toString()) and
\* the property path it reads from the state.
Getter(id, text, path) == [id |-> id, text |-> text, path |-> path]

\* state => state.d.e, and key => state => state[key] called with 'a' and
\* with 'd': two functions with one source text.
GetE == Getter("e", "state => state.d.e", <<"d", "e">>)
GetKeyA == Getter("ka", "state => state[key]", <<"a">>)
GetKeyD == Getter("kd", "state => state[key]", <<"d">>)
Getters == {GetE, GetKeyA, GetKeyD}

RECURSIVE Project(_, _, _)
\* getter(state): reading a property of null or undefined throws.
Project(h, x, path) ==
  IF Len(path) = 0 THEN [thrown |-> FALSE, val |-> x]
  ELSE IF x.t \in {"null", "undef"} THEN [thrown |-> TRUE, val |-> Undef]
  ELSE Project(h, Prop(h, x, Head(path)), Tail(path))

applyGetter(h, st, getter) ==
  LET r == Project(h, st, getter.path) IN IF r.thrown THEN Null ELSE r.val

\* The fields of an RxState before new RxState(store); sub is its
\* subscription to store.state$, value is _state$.value, timer is the
\* pending debounce of _triggerCheckWatchers$, holders counts the
\* BehaviorSubjects watch has created, completed records who completed them.
NoRxState ==
  [made |-> FALSE, sub |-> 0, listening |-> FALSE, value |-> Null, stateDone |-> FALSE,
   done |-> FALSE, watchers |-> <<>>, blockers |-> <<>>, timer |-> FALSE,
   holders |-> 0, completed |-> {}]

Includes(seq, x) == \E i \in 1..Len(seq) : seq[i] = x

\* typeof x === 'object'
TypeofObject(x) == x.t \in {"ref", "null"}

\* The comparison made by reference also for objects.
Changed_byReference(h, val, old) == val # old

\* isObject && !jsonEqual(val, ii.notify.value) || !isObject && val !== ii.notify.value
Changed(h, val, old) ==
  LET isObject == TypeofObject(val) /\ TypeofObject(old)
  IN (isObject /\ ~jsonEqual(h, val, old)) \/ (~isObject /\ val # old)

\* BehaviorSubject.next of a holder; log is what it has emitted by next.
notifyNext(notify, x) ==
  IF notify.isStopped THEN notify
  ELSE [notify EXCEPT !.value = x, !.log = Append(@, x)]

\* The holder is left at the value it was created with.
CheckWatcher_never(h, st, ww) == ww

CheckWatcher(h, st, ww) ==
  LET val == applyGetter(h, st, ww.getter)
  IN IF Changed(h, val, ww.notify.value) THEN [ww EXCEPT !.notify = notifyNext(@, val)]
     ELSE ww

RECURSIVE forEachWatcher_abortOnThrow(_, _, _)
\* The loop with a getter's exception left uncaught: it ends at the first
\* watcher whose getter throws.
forEachWatcher_abortOnThrow(h, st, ws) ==
  IF Len(ws) = 0 THEN <<>>
  ELSE IF Project(h, st, Head(ws).getter.path).thrown THEN ws
  ELSE <<CheckWatcher(h, st, Head(ws))>> \o forEachWatcher_abortOnThrow(h, st, Tail(ws))

RECURSIVE forEachWatcher(_, _, _)
\* this.watchers.forEach(ii => ...) of the _state$ subscriber.
forEachWatcher(h, st, ws) ==
  IF Len(ws) = 0 THEN <<>>
  ELSE <<CheckWatcher(h, st, Head(ws))>> \o forEachWatcher(h, st, Tail(ws))

\* _triggerCheckWatchers$.next(): (re)starts the debounce, until destroy.
triggerCheckWatchers(w) == IF w.rx.done THEN w ELSE [w EXCEPT !.rx.timer = TRUE]

\* The subscriber of _state$ without _triggerCheckWatchers$.next().
stateChanged_untriggered(w) ==
  [w EXCEPT !.rx.watchers = forEachWatcher(w.heap, w.rx.value, w.rx.watchers)]

\* The subscriber of _state$.
stateChanged(w) ==
  triggerCheckWatchers(
    [w EXCEPT !.rx.watchers = forEachWatcher(w.heap, w.rx.value, w.rx.watchers)])

\* _state$.next(x).
stateNext(w, x) ==
  IF w.rx.stateDone THEN w
  ELSE LET w1 == [w EXCEPT !.rx.value = x]
       IN IF w1.rx.listening THEN stateChanged(w1) ELSE w1

\* -------------------------------------------------------------- pipeline

StoreSub == 1

\* The running state of one toState$ instance (or of(value)) of a subscription;
\* reds counts the reducer's calls, calls those that invoked a handler.
NewNode(n) ==
  [acc |-> cfg.nodes[n].init, has |-> FALSE, key |-> Undef, log |-> <<>>, reds |-> 0,
   calls |-> 0]

\* The running state of one subscription to state$; error is the error
\* notification that ended it, "" while it is open; callback is the action
\* the subscriber's next callback dispatches the first time it is called
\* after subscribe has returned (NoAction: it dispatches nothing), called
\* whether it has done so.
NewSub ==
  [nodes |-> [n \in 1..NNodes |-> NewNode(n)],
   pacc |-> <<>>, hasParts |-> FALSE, hasBase |-> FALSE, baseVal |-> Undef,
   out |-> <<>>, error |-> "", callback |-> NoAction, called |-> FALSE]

RECURSIVE LastOf(_, _)
\* What each part has emitted last, from part i on (has = FALSE: nothing yet).
LastOf(nds, i) ==
  IF i + 1 > Len(nds) THEN <<>>
  ELSE <<[has |-> nds[i + 1].has, val |-> nds[i + 1].key]>> \o LastOf(nds, i + 1)

RECURSIVE Delivered(_)
\* The number of values the subscribers of state$ have received so far.
Delivered(sbs) == IF Len(sbs) = 0 THEN 0 ELSE Len(Head(sbs).out) + Delivered(Tail(sbs))

\* Deliver with the Store caching only the first value it receives.
Deliver_cacheFirst(w, s, x, src) ==
  LET e == [val |-> x, src |-> src, partLast |-> LastOf(w.subs[s].nodes, 1),
            at |-> Delivered(w.subs) + 1]
      w1 == [w EXCEPT !.subs[s].out = Append(@, e),
                      !.state = IF s = StoreSub /\ Len(w.subs[s].out) = 0 THEN x ELSE @]
  IN IF s = w.rx.sub THEN stateNext(w1, x) ELSE w1

\* The subscriber's next callback: the Store's own subscriber caches the
\* value, the RxState's passes it to _state$, and a subscriber with a
\* callback action calls store.dispatch with it (pending: the call that
\* actionIn$.next finds made when the observer returns).  at numbers the
\* calls of the next callbacks of all subscribers in the order they are made.
Deliver(w, s, x, src) ==
  LET e == [val |-> x, src |-> src, partLast |-> LastOf(w.subs[s].nodes, 1),
            at |-> Delivered(w.subs) + 1]
      calling == w.subs[s].callback # NoAction /\ ~w.subs[s].called
      w1 == [w EXCEPT !.subs[s].out = Append(@, e),
                      !.subs[s].called = @ \/ calling,
                      !.state = IF s = StoreSub THEN x ELSE @,
                      !.pending = IF calling THEN w.subs[s].callback ELSE @]
  IN IF s = w.rx.sub THEN stateNext(w1, x) ELSE w1

\* The assembly waiting for the parts' stream also when there are no parts.
CombineEmit_needsParts(w, s, src) ==
  LET sb == w.subs[s]
  IN IF ~(sb.hasBase /\ sb.hasParts) THEN w
     ELSE LET a == Alloc(w.heap,
                         ObjectAssign(ObjectAssign(<<>>, ObjOf(w.heap, sb.baseVal)), sb.pacc))
          IN Deliver([w EXCEPT !.heap = a.heap], s, a.val, src)

\* combineLatest(toCombine).pipe(map(([into, from]) => Object.assign({}, into, from)))
CombineEmit(w, s, src) ==
  LET sb == w.subs[s]
  IN IF ~(sb.hasBase /\ (sb.hasParts \/ NParts = 0)) THEN w
     ELSE LET a == Alloc(w.heap,
                         ObjectAssign(ObjectAssign(<<>>, ObjOf(w.heap, sb.baseVal)), sb.pacc))
          IN Deliver([w EXCEPT !.heap = a.heap], s, a.val, src)

\* The base's value is latched but only a part's emission recombines.
BaseNext_silent(w, s, x) ==
  [w EXCEPT !.subs[s].hasBase = TRUE, !.subs[s].baseVal = x]

BaseNext(w, s, x) ==
  CombineEmit([w EXCEPT !.subs[s].hasBase = TRUE, !.subs[s].baseVal = x], s, 1)

\* The parts' scan without its accumulator: only the emitting part is kept.
PartsScan_noAcc(pacc, key, x) == <<Entry(key, x)>>

\* map(_ => {[key]: _}), merge, scan((acc, val) => Object.assign({}, acc, val), {})
PartsScan(pacc, key, x) == ObjectAssign(ObjectAssign(<<>>, pacc), <<Entry(key, x)>>)

PartNext(w, s, i, x) ==
  CombineEmit([w EXCEPT !.subs[s].pacc = PartsScan(@, PartKey(i), x),
                        !.subs[s].hasParts = TRUE], s, i + 1)

\* What is downstream of node n.
Emit(w, s, n, x) ==
  IF ~cfg.assembled THEN Deliver(w, s, x, n)
  ELSE IF n = 1 THEN BaseNext(w, s, x) ELSE PartNext(w, s, n - 1, x)

\* Records the emission of node n and passes it on.
Emitted(w, s, n, x) ==
  Emit([w EXCEPT !.subs[s].nodes[n].has = TRUE,
                 !.subs[s].nodes[n].key = x,
                 !.subs[s].nodes[n].log =
                    Append(@, [val |-> x, reds |-> w.subs[s].nodes[n].reds])], s, n, x)

\* distinctUntilChanged left out: every scan result is passed on.
distinctUntilChanged_off(w, s, n, x) == Emitted(w, s, n, x)

distinctUntilChanged(w, s, n, x) ==
  IF w.subs[s].nodes[n].has /\ w.subs[s].nodes[n].key = x THEN w
  ELSE Emitted(w, s, n, x)

\* The error notification a throwing accumulator makes scan send downstream:
\* it passes every operator and reaches the subscriber, which has no error
\* callback; the subscription is closed and unsubscribed from actionIn$, and
\* the error is reported on a later timer tick, outside the dispatch call.
error(w, s) ==
  [w EXCEPT !.subs[s].error = "Error",
            !.observers = SelectSeq(@, LAMBDA ob : ob.node = 0 \/ ob.sub # s)]

\* scan that reduces every action on the seed instead of the running state.
scan_onSeed(w, s, n, action) ==
  LET r == reducers_(cfg.nodes[n].handlers, w.heap, cfg.nodes[n].init, action)
  IN IF w.subs[s].error # "" THEN w
     ELSE IF r.val = Thrown THEN error(w, s)
     ELSE distinctUntilChanged([w EXCEPT !.heap = r.heap,
                                         !.subs[s].nodes[n].acc = r.val,
                                         !.subs[s].nodes[n].reds = @ + 1,
                                         !.subs[s].nodes[n].calls =
                                            IF r.called THEN @ + 1 ELSE @], s, n, r.val)

\* action$.pipe(scan(reducers_(reduce), init)) of node n receives an action;
\* a closed subscriber ignores it.
scan(w, s, n, action) ==
  LET r == reducers_(cfg.nodes[n].handlers, w.heap, w.subs[s].nodes[n].acc, action)
  IN IF w.subs[s].error # "" THEN w
     ELSE IF r.val = Thrown THEN error(w, s)
     ELSE distinctUntilChanged([w EXCEPT !.heap = r.heap,
                                         !.subs[s].nodes[n].acc = r.val,
                                         !.subs[s].nodes[n].reds = @ + 1,
                                         !.subs[s].nodes[n].calls =
                                            IF r.called THEN @ + 1 ELSE @], s, n, r.val)

\* toState$ without merge(of(init), ...): nothing is emitted before an action.
toState_noInit(w, s, n) ==
  IF w.stopped THEN w ELSE [w EXCEPT !.observers = Append(@, [sub |-> s, node |-> n])]

\* Subscribing to toState$: merge(of(init), action$.pipe(scan(...))).
toState(w, s, n) ==
  LET w1 == distinctUntilChanged(w, s, n, cfg.nodes[n].init)
  IN IF w1.stopped THEN w1
     ELSE [w1 EXCEPT !.observers = Append(@, [sub |-> s, node |-> n])]

SubscribeNode(w, s, n) ==
  IF cfg.nodes[n].stream THEN toState(w, s, n) ELSE Emitted(w, s, n, cfg.nodes[n].init)

RECURSIVE SubscribeNodes(_, _, _)
\* combineLatest and merge subscribe to their inputs in order.
SubscribeNodes(w, s, n) ==
  IF n > NNodes THEN w ELSE SubscribeNodes(SubscribeNode(w, s, n), s, n + 1)

\* state$.subscribe(...) as a new subscription.
subscribe(w) ==
  SubscribeNodes([w EXCEPT !.subs = Append(@, NewSub)], Len(w.subs) + 1, 1)

\* action$ passing on only the actions some handler map registers.
Spied_handled(w, k, action) ==
  IF \E n \in 1..Len(cfg.nodes) : action.type \in Types(cfg.nodes[n].handlers)
  THEN [w EXCEPT !.spies[k] = Append(@, Action(action.type, action.value))]
  ELSE w

\* action$ = actionIn$.pipe(map(action => ({...action}))) reaching spy k.
Spied(w, k, action) ==
  [w EXCEPT !.spies[k] = Append(@, Action(action.type, action.value))]

\* An observer of actionIn$ is a scan of a state$ subscription or, with
\* node = 0, a subscriber of action$.
Observe(w, ob, action) ==
  IF ob.node = 0 THEN Spied(w, ob.sub, action) ELSE scan(w, ob.sub, ob.node, action)

\* The calls one Subject.next(action) makes: observer.next(action) for every
\* observer of the copy taken at the call, in order.
Calls(obs, action) == [i \in 1..Len(obs) |-> [ob |-> obs[i], action |-> action]]

\* An observer has returned: if its subscriber called store.dispatch(b), the
\* whole of actionIn$.next(b) has run inside it, so the calls of that inner
\* next come before the remaining calls of the outer one.
Returned_(w, calls) ==
  IF w.pending = NoAction THEN [w |-> w, calls |-> calls]
  ELSE [w |-> [w EXCEPT !.pending = NoAction, !.dispatched = Append(@, w.pending)],
        calls |-> Calls(w.observers, w.pending) \o calls]

RECURSIVE SubjectNext(_)
\* Subject.next, as the world and the calls it still has to make.
SubjectNext(c) ==
  IF Len(c.calls) = 0 THEN c.w
  ELSE SubjectNext(Returned_(Observe(c.w, Head(c.calls).ob, Head(c.calls).action),
                             Tail(c.calls)))

\* Subject.next raising ObjectUnsubscribedError once the Subject has completed.
dispatch_closed(w, action) ==
  IF w.stopped THEN [w EXCEPT !.thrown = "ObjectUnsubscribedError", !.late = @ + 1]
  ELSE SubjectNext([w |-> [w EXCEPT !.dispatched = Append(@, action)],
                    calls |-> Calls(w.observers, action)])

\* this.actionIn$.next(action); the call is recorded in dispatched or late.
dispatch(w, action) ==
  IF w.stopped THEN [w EXCEPT !.late = @ + 1]
  ELSE SubjectNext([w |-> [w EXCEPT !.dispatched = Append(@, action)],
                    calls |-> Calls(w.observers, action)])

destruct(w) == [w EXCEPT !.stopped = TRUE, !.observers = <<>>]

\* store.action$.subscribe(spy)
subscribeAction(w) ==
  LET w1 == [w EXCEPT !.spies = Append(@, <<>>)]
  IN IF w.stopped THEN w1
     ELSE [w1 EXCEPT !.observers = Append(@, [sub |-> Len(w1.spies), node |-> 0])]

\* ---------------------------------------------------------------- RxState

\* actor.new(value)
new(actr, value) == Action(actr.type, value)

\* or_(orValue)(val): val || orValue
or_(orValue, val) == IF Falsy(val) THEN orValue ELSE val

\* act that leaves the transform out.
act_untransformed(w, actr, value, transform) == dispatch(w, new(actr, value))

\* rxState.act(actor, value, transform); a transform is or_(orValue), and
\* op = "none" stands for a call without one.
act(w, actr, value, transform) ==
  dispatch(w, new(actr, IF transform.op # "none" THEN or_(transform.orValue, value)
                        ELSE value))

\* rxState.act_(actor, transform)(value)
act_(w, actr, transform, value) == act(w, actr, value, transform)

\* new RxState(store)
newRxState(w) ==
  LET made == [NoRxState EXCEPT !.made = TRUE, !.sub = Len(w.subs) + 1, !.value = w.state]
      w1 == subscribe([w EXCEPT !.rx = made])
  IN stateChanged([w1 EXCEPT !.rx.listening = TRUE])

\* A watcher; registered is the set of tokens watch has added to its blocker.
Watcher(getter, id, value) ==
  [getter |-> getter,
   notify |-> [id |-> id, value |-> value, observers |-> 0, isStopped |-> FALSE, log |-> <<>>],
   blocker |-> <<>>,
   registered |-> {}]

\* this.watchers.find(ii => ii.getter === getter || ii.getter.toString() === getter.toString())
Find(ws, getter) ==
  {i \in 1..Len(ws) : ws[i].getter.id = getter.id \/ ws[i].getter.text = getter.text}

\* The index in watchers of the watcher watch(getter) uses.
WatcherOf(ws, getter) ==
  IF Find(ws, getter) = {} THEN Len(ws) + 1
  ELSE CHOOSE i \in Find(ws, getter) : \A j \in Find(ws, getter) : i <= j

\* watch that never reuses a watcher.
watch_fresh(w, getter, until) ==
  LET ws == Append(w.rx.watchers,
                   Watcher(getter, w.rx.holders + 1, applyGetter(w.heap, w.rx.value, getter)))
  IN [w EXCEPT !.rx.watchers = ws, !.rx.holders = @ + 1, !.returned = w.rx.holders + 1]

\* watch that registers until only for the watcher it creates.
watch_untilOnCreate(w, getter, until) ==
  LET ws == w.rx.watchers
      isNew == Find(ws, getter) = {}
      ii == WatcherOf(ws, getter)
      register == isNew /\ until # 0 /\ ~w.tokens[until].isStopped
      made == Watcher(getter, w.rx.holders + 1, applyGetter(w.heap, w.rx.value, getter))
      ws1 == IF isNew
             THEN Append(ws, IF register
                             THEN [made EXCEPT !.blocker = <<until>>, !.registered = {until}]
                             ELSE made)
             ELSE ws
  IN [w EXCEPT !.rx.watchers = ws1,
               !.rx.blockers = IF register /\ ~Includes(@, until) THEN Append(@, until) ELSE @,
               !.rx.holders = IF isNew THEN @ + 1 ELSE @,
               !.returned = ws1[ii].notify.id]

\* watch(getter, until); until = 0: no token given.
watch(w, getter, until) ==
  LET ws == w.rx.watchers
      ii == WatcherOf(ws, getter)
      isNew == Find(ws, getter) = {}
      ws1 == IF isNew
             THEN Append(ws, Watcher(getter, w.rx.holders + 1,
                                     applyGetter(w.heap, w.rx.value, getter)))
             ELSE ws
      register == /\ until # 0
                  /\ ~w.tokens[until].isStopped
                  /\ ~Includes(ws1[ii].blocker, until)
      ws2 == IF register
             THEN [ws1 EXCEPT ![ii].blocker = Append(@, until),
                              ![ii].registered = @ \cup {until}]
             ELSE ws1
      bl == IF register /\ ~Includes(w.rx.blockers, until)
            THEN Append(w.rx.blockers, until) ELSE w.rx.blockers
  IN [w EXCEPT !.rx.watchers = ws2,
               !.rx.blockers = bl,
               !.rx.holders = IF isNew THEN @ + 1 ELSE @,
               !.returned = ws2[ii].notify.id]

Remove(seq, i) == SubSeq(seq, 1, i - 1) \o SubSeq(seq, i + 1, Len(seq))

\* No token blocks the removal of a watcher.
Blocking_none(w, t) == FALSE

\* A token still blocks the removal of a watcher.
Blocking(w, t) == ~w.tokens[t].isStopped /\ Includes(w.rx.blockers, t)

RECURSIVE checkWatchersFrom(_, _)
\* The loop of checkWatchers, from index ii down.
checkWatchersFrom(w, ii) ==
  IF ii = 0 THEN w
  ELSE LET live == SelectSeq(w.rx.watchers[ii].blocker, LAMBDA t : Blocking(w, t))
           ww == w.rx.watchers[ii]
       IN IF ww.notify.observers = 0 /\ Len(live) = 0
          THEN checkWatchersFrom(
                 [w EXCEPT !.rx.watchers = Remove(@, ii),
                           !.rx.completed = @ \cup {[id |-> ww.notify.id, by |-> "sweep"]}],
                 ii - 1)
          ELSE checkWatchersFrom([w EXCEPT !.rx.watchers[ii].blocker = live], ii - 1)

checkWatchers(w) == checkWatchersFrom(w, Len(w.rx.watchers))

\* The debounce elapsing without checkWatchers being run.
sweep_idle(w) == [w EXCEPT !.rx.timer = FALSE]

\* The debounce of _triggerCheckWatchers$ elapses.
sweep(w) == checkWatchers([w EXCEPT !.rx.timer = FALSE])

\* The token's completion callback without _triggerCheckWatchers$.next().
blockerDone_silent(w, t) ==
  IF ~Includes(w.rx.blockers, t) THEN w
  ELSE [w EXCEPT !.rx.blockers = SelectSeq(@, LAMBDA u : u # t)]

\* The token's completion callback calling checkWatchers itself.
blockerDone_sweeping(w, t) ==
  IF ~Includes(w.rx.blockers, t) THEN w
  ELSE checkWatchers(
         [w EXCEPT !.rx.blockers = SelectSeq(@, LAMBDA u : u # t)])

\* The complete callback of until.pipe(takeUntil(until), takeUntil(this._done$)),
\* subscribed while until is in _blockers.
blockerDone(w, t) ==
  IF ~Includes(w.rx.blockers, t) THEN w
  ELSE triggerCheckWatchers(
         [w EXCEPT !.rx.blockers = SelectSeq(@, LAMBDA u : u # t)])

\* until.next()
fire(w, t) ==
  IF w.tokens[t].isStopped THEN w
  ELSE blockerDone([w EXCEPT !.tokens[t].fired = TRUE], t)

\* until.complete()
complete(w, t) ==
  IF w.tokens[t].isStopped THEN w
  ELSE blockerDone([w EXCEPT !.tokens[t].isStopped = TRUE], t)

\* watchers[i].notify.subscribe(...)
subscribeHolder(w, i) ==
  IF w.rx.watchers[i].notify.isStopped THEN w
  ELSE [w EXCEPT !.rx.watchers[i].notify.observers = @ + 1]

\* One subscription to watchers[i].notify is unsubscribed.
unsubscribeHolder(w, i) == [w EXCEPT !.rx.watchers[i].notify.observers = @ - 1]

RECURSIVE CompleteAll(_)
\* ...this.watchers.map(ii => ii.notify)].forEach(ii => ii.complete())
CompleteAll(ws) ==
  IF Len(ws) = 0 THEN <<>>
  ELSE <<[Head(ws) EXCEPT !.notify.isStopped = TRUE, !.notify.observers = 0]>>
       \o CompleteAll(Tail(ws))

\* destroy that leaves the Store open: nothing is unsubscribed from actionIn$.
destroy_keepStore(w) ==
  LET ws == w.rx.watchers
  IN [w EXCEPT !.rx.stateDone = TRUE,
               !.rx.done = TRUE,
               !.rx.timer = FALSE,
               !.rx.blockers = <<>>,
               !.rx.watchers = CompleteAll(ws),
               !.rx.completed =
                  @ \cup {[id |-> ws[i].notify.id, by |-> "destroy"] : i \in 1..Len(ws)}]

\* rxState.destroy()
destroy(w) ==
  LET ws == w.rx.watchers
      w1 == [w EXCEPT !.rx.stateDone = TRUE,
                      !.rx.done = TRUE,
                      !.rx.timer = FALSE,
                      !.rx.blockers = <<>>,
                      !.rx.watchers = CompleteAll(ws),
                      !.rx.completed =
                         @ \cup {[id |-> ws[i].notify.id, by |-> "destroy"] : i \in 1..Len(ws)},
                      !.observers = SelectSeq(@, LAMBDA ob : ob.node = 0 \/ ob.sub # w.rx.sub)]
  IN destruct(w1)

\* ---------------------------------------------------------------- system

\* The program at the start of a call.
World ==
  [heap |-> heap, subs |-> subs, observers |-> observers, stopped |-> stopped,
   state |-> state, spies |-> spies, thrown |-> "", returned |-> 0, rx |-> rx,
   tokens |-> tokens, dispatched |-> dispatched, late |-> late, pending |-> NoAction]

Becomes(w) ==
  /\ heap' = w.heap
  /\ subs' = w.subs
  /\ observers' = w.observers
  /\ stopped' = w.stopped
  /\ state' = w.state
  /\ spies' = w.spies
  /\ thrown' = w.thrown
  /\ returned' = w.returned
  /\ rx' = w.rx
  /\ tokens' = w.tokens
  /\ dispatched' = w.dispatched
  /\ late' = w.late

Snapshot(op, action) ==
  [op |-> op, action |-> action, subs |-> subs, state |-> state, spies |-> spies,
   rx |-> rx, tokens |-> tokens, dispatched |-> dispatched]

RECURSIVE NewTokens(_)
\* n Subjects that have neither emitted nor completed.
NewTokens(n) ==
  IF n = 0 THEN <<>> ELSE Append(NewTokens(n - 1), [fired |-> FALSE, isStopped |-> FALSE])

\* createStore(createState): the fields, then the constructor's subscription.
createStore ==
  subscribe([heap |-> InitHeap, subs |-> <<>>, observers |-> <<>>, stopped |-> FALSE,
             state |-> Null, spies |-> <<>>, thrown |-> "", returned |-> 0,
             rx |-> NoRxState, tokens |-> NewTokens(MaxTokens),
             dispatched |-> <<>>, late |-> 0, pending |-> NoAction])

\* The state after createStore(...).
Created ==
  /\ heap = createStore.heap
  /\ subs = createStore.subs
  /\ observers = createStore.observers
  /\ stopped = createStore.stopped
  /\ state = createStore.state
  /\ spies = createStore.spies
  /\ thrown = createStore.thrown
  /\ returned = createStore.returned
  /\ rx = createStore.rx
  /\ tokens = createStore.tokens
  /\ dispatched = createStore.dispatched
  /\ late = createStore.late
  /\ last = [op |-> "create", action |-> NoAction, subs |-> <<>>, state |-> Null,
             spies |-> <<>>, rx |-> NoRxState, tokens |-> NewTokens(MaxTokens),
             dispatched |-> <<>>]

Init == cfg \in Configs /\ Created

Dispatch ==
  \E a \in Actions :
    /\ Len(dispatched) + late < MaxDispatch
    /\ Becomes(dispatch(World, a))
    /\ last' = Snapshot("dispatch", a)
    /\ UNCHANGED cfg

Subscribe ==
  /\ Cardinality({s \in 2..Len(subs) : subs[s].callback = NoAction}) < MaxSubs
  /\ Becomes(subscribe(World))
  /\ last' = Snapshot("subscribe", NoAction)
  /\ UNCHANGED cfg

Destruct ==
  /\ ~stopped
  /\ Becomes(destruct(World))
  /\ last' = Snapshot("destruct", NoAction)
  /\ UNCHANGED cfg

Next == Dispatch \/ Subscribe \/ Destruct

Spec == Init /\ [][Next]_vars

\* ------------------------------------- a Store with subscribers of action$

\* A Store of one toState$ stream, and the test's assembled Store.
ActionConfigs ==
  {[assembled |-> FALSE, nodes |-> <<Node(TRUE, "", Ref(2), NestedHandlers)>>],
   [assembled |-> TRUE, nodes |-> <<BaseNode(TRUE), PartD>>]}

InitActions == cfg \in ActionConfigs /\ Created

SubscribeAction ==
  /\ Len(spies) < MaxSpies
  /\ Becomes(subscribeAction(World))
  /\ last' = Snapshot("subscribeAction", NoAction)
  /\ UNCHANGED cfg

NextActions == Dispatch \/ Subscribe \/ SubscribeAction \/ Destruct

SpecActions == InitActions /\ [][NextActions]_vars

\* ------------------------------------------ a Store with a throwing reducer

\* Stores whose nested handler map has a handler that throws: a toState$
\* stream alone, and the nested part of an assembly.
ThrowConfigs ==
  LET part == Node(TRUE, "d", Ref(2), NestedHandlers \o <<Handler("Boom", "throw", "")>>)
  IN {[assembled |-> FALSE, nodes |-> <<[part EXCEPT !.key = ""]>>],
      [assembled |-> TRUE, nodes |-> <<BaseNode(TRUE), part>>]}

InitThrow == cfg \in ThrowConfigs /\ Created

SpecThrow == InitThrow /\ [][Next]_vars

\* ------------------------- a Store with a subscriber that dispatches

\* store.state$.subscribe(cb) where cb calls store.dispatch(b), once, on the
\* first state it receives after subscribe has returned.
SubscribeReentrant ==
  \E b \in Actions :
    /\ \A s \in 1..Len(subs) : subs[s].callback = NoAction
    /\ Becomes([subscribe(World) EXCEPT !.subs[Len(subs) + 1].callback = b])
    /\ last' = Snapshot("subscribe", b)
    /\ UNCHANGED cfg

NextReentrant == Dispatch \/ Subscribe \/ SubscribeReentrant \/ Destruct

SpecReentrant == InitActions /\ [][NextReentrant]_vars

\* ------------------------------------------------- a Store with an RxState

\* The test's Store: a parent stream assembled with one nested stream.
RxConfigs == {[assembled |-> TRUE, nodes |-> <<BaseNode(TRUE), PartReset>>]}

\* The calls of act the callers choose from: act_set_a(1), act(set_e, 0,
\* or_(1)), act(reset, {e: 0, g: 0}) and act(reset, undefined, orNull).
ActCalls ==
  LET none == [op |-> "none", orValue |-> Undef]
      call(type, value, transform) ==
        [actor |-> [type |-> type], value |-> value, transform |-> transform]
  IN {call("SetA", Num(1), none),
      call("SetE", Num(0), [op |-> "or_", orValue |-> Num(1)]),
      call("Reset", Ref(6), none),
      call("Reset", Undef, [op |-> "or_", orValue |-> Null])}

InitRx == cfg \in RxConfigs /\ Created

NewRxState ==
  /\ ~rx.made
  /\ Becomes(newRxState(World))
  /\ last' = Snapshot("new", NoAction)
  /\ UNCHANGED cfg

\* rxState.act(actor, value, transform) or rxState.act_(actor, transform)(value);
\* before the RxState is constructed, store.dispatch(actor.new(value)).
Act ==
  \E c \in ActCalls, curried \in BOOLEAN :
    /\ Len(dispatched) + late < MaxActs
    /\ rx.made \/ (c.transform.op = "none" /\ ~curried)
    /\ Becomes(IF ~rx.made THEN dispatch(World, new(c.actor, c.value))
               ELSE IF curried THEN act_(World, c.actor, c.transform, c.value)
               ELSE act(World, c.actor, c.value, c.transform))
    /\ last' = Snapshot("dispatch", [type |-> c.actor.type, value |-> c.value,
                                     transform |-> c.transform])
    /\ UNCHANGED cfg

Watch ==
  \E g \in Getters, until \in 0..MaxTokens :
    /\ rx.made
    /\ Find(rx.watchers, g) = {} => rx.holders < MaxHolders
    /\ Becomes(watch(World, g, until))
    /\ last' = Snapshot("watch", [type |-> "watch", value |-> g, until |-> until])
    /\ UNCHANGED cfg

SubscribeHolder ==
  \E i \in 1..Len(rx.watchers) :
    /\ rx.watchers[i].notify.observers < MaxObservers
    /\ ~rx.watchers[i].notify.isStopped
    /\ Becomes(subscribeHolder(World, i))
    /\ last' = Snapshot("subscribeHolder", Action("subscribeHolder", i))
    /\ UNCHANGED cfg

UnsubscribeHolder ==
  \E i \in 1..Len(rx.watchers) :
    /\ rx.watchers[i].notify.observers > 0
    /\ Becomes(unsubscribeHolder(World, i))
    /\ last' = Snapshot("unsubscribeHolder", Action("unsubscribeHolder", i))
    /\ UNCHANGED cfg

Fire ==
  \E t \in 1..MaxTokens :
    /\ ~tokens[t].isStopped
    /\ Becomes(fire(World, t))
    /\ last' = Snapshot("fire", Action("fire", t))
    /\ UNCHANGED cfg

Complete ==
  \E t \in 1..MaxTokens :
    /\ ~tokens[t].isStopped
    /\ Becomes(complete(World, t))
    /\ last' = Snapshot("complete", Action("complete", t))
    /\ UNCHANGED cfg

\* The debounce timer fires.
Sweep ==
  /\ rx.timer
  /\ Becomes(sweep(World))
  /\ last' = Snapshot("sweep", NoAction)
  /\ UNCHANGED cfg

Destroy ==
  /\ rx.made /\ ~rx.done
  /\ Becomes(destroy(World))
  /\ last' = Snapshot("destroy", NoAction)
  /\ UNCHANGED cfg

NextRx ==
  \/ NewRxState \/ Act \/ Watch \/ SubscribeHolder \/ UnsubscribeHolder
  \/ Fire \/ Complete \/ Sweep \/ Destroy

SpecRx == InitRx /\ [][NextRx]_vars

\* ------------------------------------------ direct calls of the library

\* The objects the calls are made on: those of InitHeap, {}, a state whose d
\* is the object {e: 0, g: 0}, and {g: 0, e: 0}.
PureHeap ==
  InitHeap \o << <<>>,
                 <<Entry("a", Num(0)), Entry("d", Ref(2))>>,
                 <<Entry("g", Num(0)), Entry("e", Num(0))>> >>

\* The calls of the reducer primitives: the state is an object or absent,
\* the value anything (for a merge, an object or absent).
ReducerCalls ==
  LET refs == {Ref(i) : i \in 1..Len(PureHeap)}
      absent == {Undef, Null}
  IN {[fn |-> Handler("", op, key), state |-> st, value |-> x] :
        op \in {"setSame", "setEqual"}, key \in {"a", "d", "e"},
        st \in refs \cup absent, x \in refs \cup absent \cup {Num(0), Num(1)}}
     \cup {[fn |-> Handler("", "merge", ""), state |-> st, value |-> x] :
             st \in refs \cup absent, x \in refs \cup absent}
     \cup {[fn |-> Handler("", "mergeProperty", key), state |-> st, value |-> x] :
             key \in {"a", "d"}, st \in refs \cup absent, x \in refs \cup absent}

RECURSIVE join(_, _)
\* Array.prototype.join
join(segments, sep) ==
  IF Len(segments) = 0 THEN ""
  ELSE IF Len(segments) = 1 THEN segments[1]
  ELSE segments[1] \o sep \o join(Tail(segments), sep)

\* actor(...type): the rest parameter type is an array, also when no
\* argument is given, and an array is truthy in `type || ['???']`.
actor(type) == [type |-> join(type, "_")]

\* A Store of one toState$ stream that is left alone.
InitPure ==
  /\ cfg = [assembled |-> FALSE, nodes |-> <<Node(TRUE, "", Ref(2), NestedHandlers)>>]
  /\ Created

\* A reducer primitive is called, in a program that has done nothing else,
\* on the objects of PureHeap; last.action holds the arguments and the
\* returned value, heap the objects after the call.
CallReducer ==
  \E c \in ReducerCalls :
    LET r == ApplyHandler(c.fn, PureHeap, c.state, c.value)
    IN /\ last.op = "create"
       /\ Becomes([World EXCEPT !.heap = r.heap])
       /\ last' = Snapshot("call", [type |-> c.fn.op, key |-> c.fn.key, state |-> c.state,
                                    value |-> c.value, result |-> r.val])
       /\ UNCHANGED cfg

\* actor(...segments) and then .new(value) on the Actor it returned.
CallActor ==
  \E segments \in {<<>>, <<"SET">>, <<"SET", "ui">>, <<"SET", "ui", "locale">>},
     x \in {Null, Num(1)} :
    /\ last.op = "create"
    /\ Becomes(World)
    /\ last' = Snapshot("actor", [type |-> actor(segments).type, value |-> x,
                                  segments |-> segments,
                                  made |-> new(actor(segments), x)])
    /\ UNCHANGED cfg

NextPure == CallReducer \/ CallActor

SpecPure == InitPure /\ [][NextPure]_vars

\* ------------------------------------------------------ reading a state

RECURSIVE Deep(_, _), DeepProps(_, _)
\* The content of a value: the tree of its properties, references followed.
Deep(h, x) ==
  IF IsRef(x) THEN [t |-> "obj", v |-> 0, o |-> DeepProps(h, h[x.v])]
  ELSE [t |-> x.t, v |-> x.v, o |-> <<>>]

DeepProps(h, o) ==
  IF Len(o) = 0 THEN <<>>
  ELSE <<Entry(Head(o).k, Deep(h, Head(o).v))>> \o DeepProps(h, Tail(o))

DeepObj(props) == [t |-> "obj", v |-> 0, o |-> props]

Subs == 1..Len(subs)
StreamNodes == {n \in 1..NNodes : cfg.nodes[n].stream}

\* The latest value subscriber s has received, now and before the last operation.
Latest(s) == subs[s].out[Len(subs[s].out)].val
LatestBefore(s) == last.subs[s].out[Len(last.subs[s].out)].val

\* The last operation was a dispatch that reached the Subject's observers.
Dispatched == last.op = "dispatch" /\ ~stopped

RECURSIVE FoldReduce(_, _, _, _)
\* reduce(...reduce(reduce(st, a1), a2)..., an)
FoldReduce(map, h, st, as) ==
  IF Len(as) = 0 THEN Keep(h, st)
  ELSE LET r == reducers_(map, h, st, Head(as))
       IN FoldReduce(map, r.heap, r.val, Tail(as))

\* What node n of subscription s holds when the last action is reduced on
\* the state the node held before the dispatch.
PostReduce(s, n) ==
  LET r == reducers_(cfg.nodes[n].handlers, heap, last.subs[s].nodes[n].acc, last.action)
  IN Deep(r.heap, r.val)

RECURSIVE PostParts(_, _)
PostParts(s, i) ==
  IF i > NParts THEN <<>>
  ELSE <<Entry(PartKey(i), PostReduce(s, i + 1))>> \o PostParts(s, i + 1)

\* The post-reduction state of the last action for subscription s.
PostState(s) ==
  IF cfg.assembled THEN DeepObj(ObjectAssign(PostReduce(s, 1).o, PostParts(s, 1)))
  ELSE PostReduce(s, 1)

RECURSIVE InitParts(_)
InitParts(i) ==
  IF i > NParts THEN <<>>
  ELSE <<Entry(PartKey(i), Deep(InitHeap, cfg.nodes[i + 1].init))>> \o InitParts(i + 1)

\* The initial state of the Store: the base's initial value overlaid with
\* every part's initial value.
InitialState ==
  IF cfg.assembled
  THEN DeepObj(ObjectAssign(Deep(InitHeap, cfg.nodes[1].init).o, InitParts(1)))
  ELSE Deep(InitHeap, cfg.nodes[1].init)

\* ---------------------------------------------------------------- claims

\* C1: for a Store built from toState$_(init, reduce), getState() equals the
\* fold of reduce over the actions dispatched before destruct(), in dispatch
\* order, starting from init.
C1_StateIsFoldOfDispatched ==
  ~cfg.assembled =>
    LET r == FoldReduce(cfg.nodes[1].handlers, heap, cfg.nodes[1].init, dispatched)
    IN Deep(heap, state) = Deep(r.heap, r.val)

\* Two dispatches, each of which changed the state.
C1_Witness ==
  /\ ~cfg.assembled
  /\ Len(dispatched) >= 2
  /\ last.op = "dispatch"
  /\ Deep(heap, last.state) # InitialState
  /\ Deep(heap, state) # Deep(heap, last.state)
  /\ Deep(heap, state) # InitialState

C3_InitIsFirstValue ==
  /\ \A s \in Subs : \A n \in StreamNodes :
       /\ Len(subs[s].nodes[n].log) >= 1
       /\ subs[s].nodes[n].log[1] = [val |-> cfg.nodes[n].init, reds |-> 0]
  /\ ~cfg.assembled => \A s \in Subs : subs[s].out[1].val = cfg.nodes[1].init
  /\ last.op = "create" => Deep(heap, state) = InitialState

\* A subscription made after the Store's state has moved on.
C3_Witness ==
  /\ last.op = "subscribe"
  /\ Len(dispatched) >= 1
  /\ Deep(heap, state) # InitialState
  /\ Len(subs[Len(subs)].out) >= 1

\* C4: a dispatch whose reducers all return the reference they were given
\* emits nothing to any subscriber, and no toState$ stream emits the same
\* reference twice in a row.
C4_NoEmissionWithoutChange ==
  /\ \A s \in Subs : \A n \in StreamNodes :
       \A i \in 1..(Len(subs[s].nodes[n].log) - 1) :
         subs[s].nodes[n].log[i].val # subs[s].nodes[n].log[i + 1].val
  /\ Dispatched =>
       \A s \in Subs :
         (\A n \in StreamNodes : subs[s].nodes[n].acc = last.subs[s].nodes[n].acc)
           => subs[s].out = last.subs[s].out

\* A registered action that leaves a state that already changed as it is.
C4_Witness ==
  /\ Dispatched
  /\ last.action.type # "SomeAction"
  /\ Deep(heap, state) # InitialState
  /\ \A s \in Subs : subs[s].out = last.subs[s].out

\* The stream nodes whose handler map registers the action type.
Handling(type) == {n \in StreamNodes : type \in Types(cfg.nodes[n].handlers)}

\* The node that alone handles the last action.
Handler1 == CHOOSE n \in Handling(last.action.type) : TRUE
LastHandler == HandlerOf(cfg.nodes[Handler1].handlers, last.action.type)

PutDeep(d, k, x) == DeepObj(Put(d.o, k, x))

\* The properties of old a handler may change when given value.
Touched(hd, value, old) ==
  CASE hd.op = "merge" -> Keys(ObjOf(heap, value))
    [] hd.op = "set" -> Keys(ObjOf(heap, old)) \cup Keys(ObjOf(heap, value))
    [] OTHER -> {hd.key}

\* C5: in a Store assembled from a base stream with per-field reducers and
\* nested parts, a dispatch of an actor registered for one field (a base
\* field that is not supplied by a part, or a field of a part) leaves
\* getState() as it was except for that field, which holds the dispatched
\* value.
C5_DispatchChangesOnlyItsField ==
  (/\ Dispatched
   /\ cfg.assembled /\ cfg.nodes[1].stream /\ NParts >= 1
   /\ Cardinality(Handling(last.action.type)) = 1
   /\ LastHandler.op = "setSame"
   /\ Handler1 = 1 => LastHandler.key \notin PartKeys)
  => LET pre == Deep(heap, last.state)
         x == Deep(heap, last.action.value)
         k == cfg.nodes[Handler1].key
     IN Deep(heap, state) =
          IF Handler1 = 1 THEN PutDeep(pre, LastHandler.key, x)
          ELSE PutDeep(pre, k, PutDeep(Get(pre.o, k), LastHandler.key, x))

\* A nested field is set after a base field was set.
C5_Witness ==
  /\ Dispatched
  /\ cfg.assembled /\ cfg.nodes[1].stream /\ NParts >= 1
  /\ last.action = Action("SetE", Num(1))
  /\ Prop(heap, last.state, "a") = Num(1)
  /\ Prop(heap, Prop(heap, state, "d"), "e") = Num(1)
  /\ Prop(heap, Prop(heap, last.state, "d"), "e") = Num(0)

\* C6: an action handled only by the reducer of the part at key k leaves, in
\* the value every subscriber holds, all other keys and all fields of
\* value[k] the reducer does not change as they were.
C6_PartActionChangesOnlyItsPart ==
  (/\ Dispatched
   /\ cfg.assembled
   /\ Cardinality(Handling(last.action.type)) = 1
   /\ Handler1 > 1)
  => \A s \in Subs :
       LET pre == LatestBefore(s)
           post == Latest(s)
           k == cfg.nodes[Handler1].key
           old == Prop(heap, pre, k)
       IN /\ Keys(ObjOf(heap, post)) = Keys(ObjOf(heap, pre))
          /\ \A j \in Keys(ObjOf(heap, pre)) \ {k} : Prop(heap, post, j) = Prop(heap, pre, j)
          /\ \A f \in Keys(ObjOf(heap, old)) \ Touched(LastHandler, last.action.value, old) :
               Prop(heap, Prop(heap, post, k), f) = Prop(heap, old, f)

\* ActMerge changes one nested field after the other nested field changed.
C6_Witness ==
  /\ Dispatched
  /\ cfg.assembled
  /\ last.action = Action("ActMerge", Ref(4))
  /\ Prop(heap, Prop(heap, last.state, "d"), "g") = Num(1)
  /\ Prop(heap, Prop(heap, last.state, "d"), "e") = Num(0)
  /\ Prop(heap, Prop(heap, state, "d"), "e") = Num(1)

\* C7: the first value a subscriber receives from assemble$(base, parts) is
\* the base's initial value overlaid with the initial value of every part.
C7_FirstValueOverlaysEveryPart ==
  cfg.assembled => \A s \in Subs : Deep(heap, subs[s].out[1].val) = InitialState

\* No action type is registered in two handler maps.
TypesDisjoint ==
  \A n1, n2 \in StreamNodes :
    n1 # n2 => Types(cfg.nodes[n1].handlers) \cap Types(cfg.nodes[n2].handlers) = {}

\* C8: with every action type registered in at most one handler map, a
\* dispatch makes the assembled stream emit exactly once if the handling
\* reducer returns a new reference and not at all otherwise.
C8_OneEmissionPerChange ==
  (Dispatched /\ cfg.assembled /\ TypesDisjoint)
  => \A s \in Subs :
       Len(subs[s].out) - Len(last.subs[s].out) =
         IF \E n \in Handling(last.action.type) :
              subs[s].nodes[n].acc # last.subs[s].nodes[n].acc
         THEN 1 ELSE 0

\* One dispatch handled by the base and one handled by a part, both emitted.
C8_Witness ==
  /\ Dispatched /\ cfg.assembled /\ NParts >= 1
  /\ Len(dispatched) >= 2
  /\ Handling(last.action.type) = {1}
  /\ Len(subs[StoreSub].out) = Len(last.subs[StoreSub].out) + 1
  /\ subs[StoreSub].nodes[2].acc # cfg.nodes[2].init

\* C9: in every value assembled on an emission of the part at key k, every
\* other part key holds that part's last emitted value.
C9_PartsLatchedIndependently ==
  \A s \in Subs : \A m \in 1..Len(subs[s].out) :
    LET e == subs[s].out[m]
    IN e.src > 1 =>
         \A j \in 1..NParts :
           (j # e.src - 1 /\ e.partLast[j].has)
             => Prop(heap, e.val, PartKey(j)) = e.partLast[j].val

\* The first part emits after the second part has changed.
C9_Witness ==
  /\ NParts = 2
  /\ Dispatched
  /\ Handling(last.action.type) = {2}
  /\ Latest(StoreSub) # LatestBefore(StoreSub)
  /\ subs[StoreSub].out[Len(subs[StoreSub].out)].src = 2
  /\ subs[StoreSub].nodes[3].acc # cfg.nodes[3].init
  /\ Prop(heap, state, PartKey(2)) = subs[StoreSub].nodes[3].acc

\* C10: in every value emitted by assemble$(base, parts), each key supplied
\* in parts holds the latest value emitted by that part, never the base's.
C10_PartKeysHoldPartValues ==
  \A s \in Subs : \A m \in 1..Len(subs[s].out) :
    LET e == subs[s].out[m]
    IN \A j \in 1..NParts :
         /\ e.partLast[j].has
         /\ Prop(heap, e.val, PartKey(j)) = e.partLast[j].val

\* C11: after store.destruct(), a dispatch raises no error, leaves getState()
\* at the value it had, and makes neither state$ (any subscriber) nor
\* action$ (any subscriber) emit.
C11_DispatchAfterDestructIsNoOp ==
  (last.op = "dispatch" /\ stopped)
  => /\ thrown = ""
     /\ state = last.state
     /\ subs = last.subs
     /\ spies = last.spies

\* A registered action dispatched after destruct() to a Store whose state
\* had changed and whose action$ had a subscriber.
C11_Witness ==
  /\ last.op = "dispatch" /\ stopped
  /\ late = 1
  /\ Handling(last.action.type) # {}
  /\ Len(spies) = 1 /\ Len(spies[1]) = 1
  /\ Deep(heap, state) # InitialState

C13_SnapshotIsStoreState == rx.made => Deep(heap, rx.value) = Deep(heap, state)

\* The holder of watcher i holds the content of getter(rxState.state).
Follows(i, getter) ==
  Deep(heap, rx.watchers[i].notify.value) = Deep(heap, applyGetter(heap, rx.value, getter))

Watchers == 1..Len(rx.watchers)

\* The watch call just made returned the holder of watcher i.
Returned(i) == last.op = "watch" /\ rx.watchers[i].notify.id = returned

\* C14 as stated: for every getter g passed to rxState.watch, the holder
\* returned for g holds g(current state) at the call, and every tracked
\* holder holds its getter's projection after every later state change.
C14_HolderFollowsEveryGetter ==
  \A i \in Watchers :
    /\ Follows(i, rx.watchers[i].getter)
    /\ Returned(i) => Follows(i, last.action.value)

\* C14 amended: every tracked holder holds the projection of the getter its
\* watcher was created for, at the call and after every later state change;
\* a getter with the source text of a tracked watcher's getter is handed
\* that watcher's holder, which follows the tracked getter, not the one
\* passed.
C14_HolderFollowsItsGetter ==
  \A i \in Watchers :
    /\ Follows(i, rx.watchers[i].getter)
    /\ Returned(i) =>
         /\ rx.watchers[i].getter.text = last.action.value.text
         /\ rx.watchers[i].getter.id = last.action.value.id => Follows(i, last.action.value)

\* A dispatch has changed the projections of two tracked watchers.
C14_Witness ==
  /\ last.op = "dispatch"
  /\ Len(rx.watchers) = 2
  /\ \A i \in Watchers :
       /\ Len(rx.watchers[i].notify.log) = 1
       /\ rx.watchers[i].notify.value # last.rx.watchers[i].notify.value

\* C15: a watch call with a getter whose watcher is tracked returns that
\* watcher's holder and leaves the number of tracked watchers as it was;
\* the number grows, by one, only on a call whose getter has no tracked
\* watcher; and no two tracked watchers have the same getter or holder.
C15_OneWatcherPerGetter ==
  /\ \A i, j \in Watchers :
       i # j => /\ rx.watchers[i].getter.id # rx.watchers[j].getter.id
                /\ rx.watchers[i].notify.id # rx.watchers[j].notify.id
  /\ last.op = "watch" =>
       LET pre == last.rx.watchers
           had == {i \in 1..Len(pre) : pre[i].getter.id = last.action.value.id}
       IN /\ \A i \in had : returned = pre[i].notify.id /\ Len(rx.watchers) = Len(pre)
          /\ had = {} => Len(rx.watchers) <= Len(pre) + 1
          /\ \E i \in Watchers : rx.watchers[i].notify.id = returned

\* A second watch call with the same getter, after its holder has emitted
\* and with another watcher tracked.
C15_Witness ==
  /\ last.op = "watch"
  /\ Len(last.rx.watchers) = 2
  /\ \E i \in Watchers :
       /\ last.rx.watchers[i].getter = last.action.value
       /\ Len(rx.watchers[i].notify.log) = 1
       /\ returned = rx.watchers[i].notify.id

\* Token t had neither emitted nor completed before the last operation.
WasLive(t) == ~last.tokens[t].fired /\ ~last.tokens[t].isStopped

\* Before the last operation the tracked watcher ww had a subscriber on its
\* holder or a registered token that had not fired.
WasProtected(ww) ==
  ww.notify.observers > 0 \/ \E t \in ww.registered : WasLive(t)

\* The holder with this id is the open holder of a tracked watcher.
Tracked(id) ==
  \E i \in Watchers : rx.watchers[i].notify.id = id /\ ~rx.watchers[i].notify.isStopped

\* C16: a tracked watcher whose holder has at least one subscriber, or that
\* has at least one registered cancel token that has not fired (neither
\* emitted nor completed), is not removed and its holder is not completed by
\* a sweep, whatever state changes, token firings, subscriptions and sweeps
\* came before.
C16_SweepSparesProtectedWatchers ==
  last.op = "sweep" =>
    \A i \in 1..Len(last.rx.watchers) :
      WasProtected(last.rx.watchers[i])
        => /\ Tracked(last.rx.watchers[i].notify.id)
           /\ \A c \in rx.completed : c.id # last.rx.watchers[i].notify.id

\* A sweep removes one watcher and keeps another that has no subscriber but
\* a registered token that has not fired.
C16_Witness ==
  /\ last.op = "sweep"
  /\ Len(last.rx.watchers) = 2
  /\ Len(rx.watchers) = 1
  /\ rx.watchers[1].notify.observers = 0
  /\ \E t \in rx.watchers[1].registered : WasLive(t)

\* No subscriber is left on ww's holder and every token registered for ww, at
\* least one, has fired and completed.
Released(ww, tks) ==
  /\ ww.notify.observers = 0
  /\ ww.registered # {}
  /\ \A t \in ww.registered : tks[t].fired /\ tks[t].isStopped

\* C17 as stated: after all subscribers of a watcher's holder have
\* unsubscribed and its registered cancel token has fired and completed, the
\* watcher is gone once the debounce interval has elapsed: with no sweep
\* pending, no such watcher is tracked.
C17_ReleasedWatcherIsGone ==
  (rx.made /\ ~rx.done /\ ~rx.timer)
    => \A i \in Watchers : ~Released(rx.watchers[i], tokens)

\* C17 amended: the firing or completion of a registered token schedules a
\* sweep, and a sweep leaves no watcher tracked whose subscribers have all
\* unsubscribed and whose registered tokens have fired and completed;
\* unsubscribing schedules no sweep.
C17_SweepRemovesReleased ==
  /\ (/\ last.op \in {"fire", "complete"}
      /\ Includes(last.rx.blockers, last.action.value)
      /\ ~rx.done) => rx.timer
  /\ last.op = "sweep" => \A i \in Watchers : ~Released(rx.watchers[i], tokens)

\* The sweep removes the only watcher, whose holder had emitted, after its
\* token fired and completed.
C17_Witness ==
  /\ last.op = "sweep"
  /\ Len(rx.watchers) = 0
  /\ Len(last.rx.watchers) = 1
  /\ Released(last.rx.watchers[1], last.tokens)
  /\ Len(last.rx.watchers[1].notify.log) = 1

\* The last operation gave the watcher that was at index i a new subscriber,
\* or was a watch call for its getter with a token that had not fired.
Reactivated(i) ==
  \/ last.op = "subscribeHolder" /\ last.action.value = i
  \/ /\ last.op = "watch"
     /\ i \in Find(last.rx.watchers, last.action.value)
     /\ last.action.until # 0
     /\ WasLive(last.action.until)

\* C18: a watcher that has become eligible for removal (no subscriber, no
\* live token) and then, before the sweep runs, gets a new subscriber on its
\* holder or a watch call for its getter with a cancel token that has not
\* fired, is not removed by that sweep.
C18_ReactivatedWatcherSurvivesSweep ==
  [][last'.op = "sweep" =>
       \A i \in 1..Len(last.rx.watchers) :
         (~WasProtected(last.rx.watchers[i]) /\ Reactivated(i))
           => \E j \in 1..Len(rx'.watchers) :
                /\ rx'.watchers[j].notify.id = last.rx.watchers[i].notify.id
                /\ ~rx'.watchers[j].notify.isStopped]_vars

\* With a sweep pending, a watcher that was eligible for removal has just
\* been given a live token by a watch call for its getter, after its holder
\* had emitted.
C18_Witness ==
  /\ rx.timer
  /\ \E i \in Watchers :
       /\ i <= Len(last.rx.watchers)
       /\ ~WasProtected(last.rx.watchers[i])
       /\ Reactivated(i)
       /\ last.op = "watch"
       /\ Len(rx.watchers[i].notify.log) = 1
       /\ rx.watchers[i].blocker # <<>>

\* The ids of the holders of the tracked watchers.
HolderIds(ws) == {ws[i].notify.id : i \in 1..Len(ws)}

\* C19: firing or completing a cancel token, or unsubscribing the last
\* subscriber of a holder, removes no watcher and completes no holder in
\* that step; the tracked watcher count decreases only in the sweep step.
C19_OnlyTheSweepRemoves ==
  /\ Len(rx.watchers) < Len(last.rx.watchers) => last.op = "sweep"
  /\ last.op \in {"fire", "complete", "unsubscribeHolder"} =>
       /\ HolderIds(rx.watchers) = HolderIds(last.rx.watchers)
       /\ rx.completed = last.rx.completed
       /\ \A i \in Watchers :
            rx.watchers[i].notify.isStopped = last.rx.watchers[i].notify.isStopped

\* The token of a watcher without subscribers has just completed and the
\* watcher, whose holder had emitted, is still tracked.
C19_Witness ==
  /\ last.op = "complete"
  /\ Includes(last.rx.blockers, last.action.value)
  /\ Len(rx.watchers) = 1
  /\ rx.watchers[1].notify.observers = 0
  /\ rx.watchers[1].registered = {last.action.value}
  /\ ~rx.watchers[1].notify.isStopped
  /\ Len(rx.watchers[1].notify.log) = 1
  /\ rx.timer

\* The projection val counts as changed against the holder's value old: by
\* identity, or for two object-typed values by their JSON serialization
\* (the structural equality of jsonEqual).
ProjectionChanged(val, old) ==
  IF TypeofObject(val) /\ TypeofObject(old) THEN Json(heap, val) # Json(heap, old)
  ELSE val # old

\* C20: on a state change the holder of a tracked watcher emits the new
\* projection if and only if it changed: a non-object projection when it is
\* not identical to the holder's current value, an object projection when
\* it is not structurally equal to it; otherwise the holder emits nothing
\* and keeps its value.
C20_HolderEmitsIffProjectionChanged ==
  (last.op = "dispatch" /\ rx.made /\ ~rx.done) =>
    \A i \in Watchers :
      LET old == last.rx.watchers[i].notify
          val == applyGetter(heap, rx.value, rx.watchers[i].getter)
      IN IF ProjectionChanged(val, old.value)
         THEN /\ rx.watchers[i].notify.log = Append(old.log, val)
              /\ rx.watchers[i].notify.value = val
         ELSE /\ rx.watchers[i].notify.log = old.log
              /\ rx.watchers[i].notify.value = old.value

\* A state change gives the object projection of one watcher a new
\* reference with equal content and leaves the number another watcher
\* projects as it was: neither holder emits.
C20_Witness ==
  /\ last.op = "dispatch" /\ rx.made /\ ~rx.done
  /\ rx.value # last.rx.value
  /\ Len(rx.watchers) = 2
  /\ \E i \in Watchers :
       /\ rx.watchers[i].getter = GetKeyD
       /\ applyGetter(heap, rx.value, GetKeyD) # rx.watchers[i].notify.value
       /\ rx.watchers[i].notify.log = <<>>
  /\ \E i \in Watchers :
       /\ rx.watchers[i].getter = GetE
       /\ rx.watchers[i].notify.log = <<>>

\* The getter of watcher i throws when applied to rxState.state.
Throws(i) == Project(heap, rx.value, rx.watchers[i].getter.path).thrown

\* C21: a getter that throws on the current state, at the watch call or on a
\* later state change, raises nothing in the caller of watch, act or
\* dispatch; its holder holds null, and in that state change every other
\* watcher is re-evaluated and holds its getter's projection.
C21_ThrowingGetterProjectsNull ==
  /\ thrown = ""
  /\ \A i \in Watchers : Throws(i) => rx.watchers[i].notify.value = Null
  /\ (last.op = "watch" /\ Project(heap, rx.value, last.action.value.path).thrown)
       => \E i \in Watchers :
            rx.watchers[i].notify.id = returned /\ rx.watchers[i].notify.value = Null
  /\ (last.op = "dispatch" /\ \E i \in Watchers : Throws(i))
       => \A j \in Watchers : ~Throws(j) => Follows(j, rx.watchers[j].getter)

\* A dispatch sets state.d to null: the getter state => state.d.e of the
\* first watcher throws, its holder emits null, and the second watcher's
\* holder emits its new projection.
C21_Witness ==
  /\ last.op = "dispatch"
  /\ Len(rx.watchers) = 2
  /\ rx.watchers[1].getter = GetE /\ Throws(1)
  /\ rx.watchers[1].notify.log = <<Null>>
  /\ rx.watchers[2].getter = GetKeyD /\ ~Throws(2)
  /\ rx.watchers[2].notify.log = <<Null>>
  /\ last.rx.watchers[2].notify.value # Null

\* The last operation was a dispatch, before destruct(), of an action whose
\* handler throws.
ReducerThrew ==
  /\ Dispatched
  /\ \E n \in Handling(last.action.type) :
       HandlerOf(cfg.nodes[n].handlers, last.action.type).op = "throw"

\* C22: when a reducer throws while dispatch(action) is processed, the
\* exception reaches the caller of dispatch, getState() is the pre-dispatch
\* state and no subscriber has received a state for that action.
C22_ReducerThrowReachesCaller ==
  ReducerThrew =>
    /\ thrown # ""
    /\ state = last.state
    /\ \A s \in Subs : subs[s].out = last.subs[s].out

\* C23: rxState.destroy() completes the holder of every tracked watcher,
\* stops the state mirroring and the sweep timer and destructs the Store;
\* in every step after it rxState.state and store.getState() stay as they
\* were, no holder emits, no sweep is pending and none runs.
C23_DestroyEndsEverything ==
  /\ last.op = "destroy" =>
       /\ \A i \in 1..Len(last.rx.watchers) :
            /\ rx.watchers[i].notify.id = last.rx.watchers[i].notify.id
            /\ rx.watchers[i].notify.isStopped
            /\ rx.watchers[i].notify.log = last.rx.watchers[i].notify.log
       /\ rx.stateDone /\ ~rx.timer /\ stopped
       /\ \A i \in 1..Len(observers) : observers[i].node = 0
  /\ (rx.done /\ last.rx.done) =>
       /\ last.op # "sweep" /\ ~rx.timer
       /\ rx.value = last.rx.value
       /\ state = last.state
       /\ \A i \in 1..Len(last.rx.watchers) :
            /\ rx.watchers[i].notify.log = last.rx.watchers[i].notify.log
            /\ rx.watchers[i].notify.value = last.rx.watchers[i].notify.value
       /\ \A i \in Watchers : rx.watchers[i].notify.log # <<>> => i <= Len(last.rx.watchers)

\* A registered action is dispatched after destroy(), which had completed
\* the holders of two watchers, one of them with a live token.
C23_Witness ==
  /\ last.op = "dispatch" /\ last.rx.done
  /\ Handling(last.action.type) # {}
  /\ Len(rx.watchers) = 2
  /\ \A i \in Watchers : rx.watchers[i].notify.isStopped
  /\ \E i \in Watchers : \E t \in rx.watchers[i].registered : ~tokens[t].isStopped

\* C24: a dispatch that changes the state notifies every subscriber of
\* state$ of the new state, once, in the order in which they subscribed,
\* before it returns.
C24_SubscribersNotifiedInOrder ==
  (Dispatched /\ state # last.state) =>
    /\ \A s \in Subs :
         /\ Len(subs[s].out) = Len(last.subs[s].out) + 1
         /\ Deep(heap, Latest(s)) = Deep(heap, state)
    /\ \A s1, s2 \in Subs :
         s1 < s2 => subs[s1].out[Len(subs[s1].out)].at < subs[s2].out[Len(subs[s2].out)].at

C26_ActDispatchesOneAction ==
  /\ (last.op = "dispatch" /\ last.rx.made /\ ~stopped) =>
       LET c == last.action
           action == [type |-> c.type,
                      value |-> IF c.transform.op = "none" THEN c.value
                                ELSE IF Falsy(c.value) THEN c.transform.orValue
                                ELSE c.value]
       IN /\ dispatched = Append(last.dispatched, action)
          /\ \A n \in StreamNodes :
               LET pre == last.subs[StoreSub].nodes[n]
                   r == reducers_(cfg.nodes[n].handlers, heap, pre.acc, action)
               IN /\ subs[StoreSub].nodes[n].reds = pre.reds + 1
                  /\ Deep(heap, subs[StoreSub].nodes[n].acc) = Deep(r.heap, r.val)
  /\ rx.made =>
       \A c \in ActCalls :
         act_(World, c.actor, c.transform, c.value) = act(World, c.actor, c.value, c.transform)

\* act(set_e, 0, or_(1)) has dispatched {type: 'SetE', value: 1}: the nested
\* state's e is 1.
C26_Witness ==
  /\ last.op = "dispatch" /\ last.rx.made /\ ~stopped
  /\ last.action.transform.op = "or_"
  /\ last.action.value = Num(0)
  /\ dispatched = <<Action("SetE", Num(1))>>
  /\ Prop(heap, Prop(heap, state, "d"), "e") = Num(1)
  /\ Prop(heap, Prop(heap, last.state, "d"), "e") = Num(0)

\* The value x did not exist before the call: it is an object built by it.
IsNew(x) == IsRef(x) /\ x.v > Len(PureHeap)

\* C27: setPropertyIfNotSame(state, key, value) returns the same reference
\* when state is absent or state[key] is identical to value; otherwise a new
\* object whose key holds value and whose other keys are those of state,
\* with the same values.
C27_SetPropertyIfNotSame ==
  (last.op = "call" /\ last.action.type = "setSame") =>
    LET c == last.action
        old == ObjOf(PureHeap, c.state)
    IN IF Falsy(c.state) \/ Get(old, c.key) = c.value THEN c.result = c.state
       ELSE /\ IsNew(c.result)
            /\ Keys(heap[c.result.v]) = Keys(old) \cup {c.key}
            /\ Prop(heap, c.result, c.key) = c.value
            /\ \A k \in Keys(old) \ {c.key} : Prop(heap, c.result, k) = Get(old, k)

\* The key d of {a: 0, d: {e: 0, g: 0}} is set to another object with the
\* same content: a new state is returned.
C27_Witness ==
  /\ last.op = "call" /\ last.action.type = "setSame"
  /\ last.action.state = Ref(8) /\ last.action.key = "d" /\ last.action.value = Ref(6)
  /\ IsNew(last.action.result)
  /\ Prop(heap, last.action.result, "a") = Num(0)

\* C28 as stated: setPropertyIfNotEqual(s, k, v) returns s itself whenever v
\* is deep-equal to s[k] (the same keys with deep-equal values), and a new
\* object only when v differs in content from s[k].
C28_SameReferenceIffDeepEqual ==
  (last.op = "call" /\ last.action.type = "setEqual" /\ IsRef(last.action.state)) =>
    LET RECURSIVE DeepEqual(_, _)
        DeepEqual(aa, bb) ==
          IF IsRef(aa) /\ IsRef(bb)
          THEN /\ Keys(PureHeap[aa.v]) = Keys(PureHeap[bb.v])
               /\ \A k \in Keys(PureHeap[aa.v]) :
                    DeepEqual(Prop(PureHeap, aa, k), Prop(PureHeap, bb, k))
          ELSE aa = bb
        c == last.action
    IN c.result = c.state <=> DeepEqual(Prop(PureHeap, c.state, c.key), c.value)

\* C28 amended: setPropertyIfNotEqual(s, k, v) returns s itself exactly when
\* s is absent, v is identical to s[k], or v and s[k] have the same JSON
\* serialization (the same keys in the same order with values serialized the
\* same, whatever the references); otherwise it returns a new object whose k
\* holds v and whose other keys are as in s.
C28_SameReferenceIffSameJson ==
  (last.op = "call" /\ last.action.type = "setEqual") =>
    LET c == last.action
        old == ObjOf(PureHeap, c.state)
    IN IF \/ Falsy(c.state)
          \/ Get(old, c.key) = c.value
          \/ Json(PureHeap, Get(old, c.key)) = Json(PureHeap, c.value)
       THEN c.result = c.state
       ELSE /\ IsNew(c.result)
            /\ Keys(heap[c.result.v]) = Keys(old) \cup {c.key}
            /\ Prop(heap, c.result, c.key) = c.value
            /\ \A k \in Keys(old) \ {c.key} : Prop(heap, c.result, k) = Get(old, k)

\* The key d of {a: 0, d: {e: 0, g: 0}} is set to another object {e: 0, g: 0}:
\* the state itself is returned.
C28_Witness ==
  /\ last.op = "call" /\ last.action.type = "setEqual"
  /\ last.action.state = Ref(8) /\ last.action.key = "d" /\ last.action.value = Ref(6)
  /\ Prop(PureHeap, Ref(8), "d") # Ref(6)
  /\ last.action.result = Ref(8)

\* C29: for every object state s, redMerge(s, s) returns s itself and
\* redMerge(s, {}) returns s itself; more generally redMerge(s, v) returns
\* the reference s whenever every key of v is already identical in s.
C29_RedMergeKeepsReference ==
  (last.op = "call" /\ last.action.type = "merge" /\ IsRef(last.action.state)) =>
    LET c == last.action
        old == PureHeap[c.state.v]
        val == ObjOf(PureHeap, c.value)
    IN /\ c.value = c.state => c.result = c.state
       /\ (IsRef(c.value) /\ Keys(val) = {}) => c.result = c.state
       /\ (\A k \in Keys(val) : k \in Keys(old) /\ Get(old, k) = Get(val, k)) =>
            c.result = c.state

\* A state is merged with itself, with the empty object, and with another
\* object whose only key it already holds identically.
C29_Witness ==
  /\ last.op = "call" /\ last.action.type = "merge"
  /\ last.action.state = Ref(8) /\ last.action.result = Ref(8)
  /\ last.action.value \in {Ref(8), Ref(7)}

\* C30: actor(...segments) yields an Actor whose type is the segments joined
\* with '_' in order, and whose type is the placeholder literal '???' when no
\* segments are given; actor.new(value) returns an action with exactly that
\* type and that value.
C30_ActorTypeIsJoinedSegments ==
  last.op = "actor" =>
    LET c == last.action
        RECURSIVE Joined(_)
        Joined(ss) ==
          IF Len(ss) = 1 THEN ss[1] ELSE ss[1] \o "_" \o Joined(Tail(ss))
    IN /\ c.type = (IF c.segments = <<>> THEN "???" ELSE Joined(c.segments))
       /\ c.made = [type |-> c.type, value |-> c.value]

\* C31: setPropertyIfNotSame, setPropertyIfNotEqual, redMerge and
\* redMergeProperty_(key) never modify the state object or the value object
\* they are given: after any call every object that existed before has the
\* keys and values it had, and the result is either the input state or a
\* newly built object.
C31_ReducersDoNotMutate ==
  last.op = "call" =>
    /\ Len(heap) >= Len(PureHeap)
    /\ \A i \in 1..Len(PureHeap) : heap[i] = PureHeap[i]
    /\ last.action.result = last.action.state \/ IsNew(last.action.result)

\* redMergeProperty_('d') merges {e: 1} into the d of {a: 0, d: {e: 0, g: 0}}:
\* a new state with a new d is returned, and both given objects and the old d
\* are as they were.
C31_Witness ==
  /\ last.op = "call" /\ last.action.type = "mergeProperty" /\ last.action.key = "d"
  /\ last.action.state = Ref(8) /\ last.action.value = Ref(4)
  /\ IsNew(last.action.result)
  /\ IsNew(Prop(heap, last.action.result, "d"))
  /\ Prop(heap, Prop(heap, last.action.result, "d"), "e") = Num(1)
  /\ Prop(heap, Ref(8), "d") = Ref(2)
  /\ Prop(heap, Ref(2), "e") = Num(0)

\* C32: redMergeProperty_(key)(state, value) on an object state returns the
\* state itself when state[key] is an object and every key of value is
\* already identical in it; otherwise it returns a new object whose key holds
\* a new object with the properties of state[key] overlaid by those of value
\* and whose every other key is the same as in state.
C32_RedMergePropertyKeepsRest ==
  (last.op = "call" /\ last.action.type = "mergeProperty" /\ IsRef(last.action.state)) =>
    LET c == last.action
        old == PureHeap[c.state.v]
        nested == ObjOf(PureHeap, Get(old, c.key))
        val == ObjOf(PureHeap, c.value)
        res == ObjOf(heap, c.result)
        got == ObjOf(heap, Get(res, c.key))
    IN IF /\ IsRef(Get(old, c.key))
          /\ \A k \in Keys(val) : Get(nested, k) = Get(val, k)
       THEN c.result = c.state
       ELSE /\ IsNew(c.result)
            /\ Keys(res) = Keys(old) \cup {c.key}
            /\ \A k \in Keys(old) \ {c.key} : Get(res, k) = Get(old, k)
            /\ IsNew(Get(res, c.key))
            /\ Keys(got) = Keys(nested) \cup Keys(val)
            /\ \A k \in Keys(got) :
                 Get(got, k) = (IF k \in Keys(val) THEN Get(val, k) ELSE Get(nested, k))

\* {e: 1} is merged into the d of {a: 0, d: {e: 0, g: 0}}: the new state has
\* the same a and a d of {e: 1, g: 0}; merging {e: 0, g: 0} (another object of
\* the same content) returns the state itself.
C32_Witness ==
  /\ last.op = "call" /\ last.action.type = "mergeProperty" /\ last.action.key = "d"
  /\ last.action.state = Ref(8)
  /\ \/ /\ last.action.value = Ref(4)
        /\ Prop(heap, last.action.result, "a") = Num(0)
        /\ Prop(heap, Prop(heap, last.action.result, "d"), "e") = Num(1)
        /\ Prop(heap, Prop(heap, last.action.result, "d"), "g") = Num(0)
     \/ /\ last.action.value = Ref(6)
        /\ last.action.result = Ref(8)

\* C33: assemble$(base, parts) called with absent or empty parts still emits:
\* every subscriber receives one value per emission of the base, equal in
\* content to that base value; a plain base object is emitted once.
C33_EmptyPartsFollowBase ==
  (cfg.assembled /\ NParts = 0) =>
    \A s \in 1..Len(subs) :
      LET base == subs[s].nodes[1].log
          out == subs[s].out
      IN /\ Len(out) >= 1
         /\ Len(out) = Len(base)
         /\ \A j \in 1..Len(out) : Deep(heap, out[j].val) = Deep(heap, base[j].val)
         /\ ~cfg.nodes[1].stream =>
              Len(out) = 1 /\ Deep(heap, out[1].val) = Deep(InitHeap, cfg.nodes[1].init)

\* A Store assembled from a base stream alone has emitted its initial state
\* and, after a dispatch, a second state.
C33_Witness ==
  /\ cfg.assembled /\ NParts = 0 /\ cfg.nodes[1].stream
  /\ Len(subs) >= 2
  /\ Len(subs[2].out) >= 2
  /\ Deep(heap, subs[2].out[2].val) # Deep(heap, subs[2].out[1].val)
  /\ Deep(heap, subs[2].out[2].val) = Deep(heap, state)

C35_SweptHolderIsNotReused ==
  /\ last.op = "sweep" =>
       \A i \in 1..Len(last.rx.watchers) :
         LET ww == last.rx.watchers[i]
         IN (ww.registered = {} /\ ww.notify.observers = 0) =>
              /\ ~Tracked(ww.notify.id)
              /\ [id |-> ww.notify.id, by |-> "sweep"] \in rx.completed
  /\ last.op = "watch" =>
       /\ \A c \in rx.completed : c.by = "sweep" => returned # c.id
       /\ Find(last.rx.watchers, last.action.value) = {} =>
            /\ returned = last.rx.holders + 1
            /\ \E j \in Watchers :
                 /\ rx.watchers[j].notify.id = returned
                 /\ rx.watchers[j].getter = last.action.value
                 /\ ~rx.watchers[j].notify.isStopped

\* The first holder was completed by a sweep; a watch call then returned a
\* second holder, the only one tracked.
C35_Witness ==
  /\ last.op = "watch"
  /\ ~rx.done
  /\ [id |-> 1, by |-> "sweep"] \in rx.completed
  /\ last.rx.watchers = <<>>
  /\ returned = 2
  /\ Len(rx.watchers) = 1
  /\ rx.watchers[1].notify.id = 2
  /\ ~rx.watchers[1].notify.isStopped

\* C36: a subscriber that subscribes to store.state$ after the Store has
\* processed state-changing actions receives the Store's current state
\* (getState()) as its first value and afterwards always holds the same
\* latest state as getState().
C36_LateSubscriberHoldsStoreState ==
  \A s \in Subs :
    /\ (last.op = "subscribe" /\ s = Len(subs) /\ Deep(heap, state) # InitialState) =>
         Len(subs[s].out) >= 1 /\ Deep(heap, subs[s].out[1].val) = Deep(heap, state)
    /\ Deep(heap, Latest(s)) = Deep(heap, state)

\* C37: when a state$ subscriber dispatches a further action from inside its
\* state callback, every subscription of store.state$ (each subscribed before
\* the first dispatch, so that it reduces every action) and the Store's own
\* cached state reduce the actions in the same order: after the outer
\* dispatch returns, getState() and the latest value held by every
\* subscriber are equal.
C37_ReentrantDispatchKeepsOrder ==
  (/\ Dispatched
   /\ \A s \in Subs : \A n \in StreamNodes : subs[s].nodes[n].reds = Len(dispatched))
    => \A s \in Subs : Deep(heap, Latest(s)) = Deep(heap, state)

\* C38: after a dispatch in which a reducer threw, the Store remains usable:
\* a later dispatch of an action whose reducer succeeds is reduced against
\* the pre-failure state, updates getState() and is emitted on state$.
C38_StoreUsableAfterThrow ==
  (/\ Dispatched
   /\ last.subs[StoreSub].error # ""
   /\ ~ReducerThrew)
    => /\ Deep(heap, state) = PostState(StoreSub)
       /\ \A s \in 1..Len(last.subs) : Deep(heap, Latest(s)) = PostState(s)

\* C39: after rxState.destroy() every holder obtained from watch is completed
\* and no watcher with an open holder remains tracked, also after watch
\* calls made after destroy: they create no new live watcher.
C39_NothingLiveAfterDestroy ==
  rx.done =>
    /\ \A i \in Watchers : rx.watchers[i].notify.isStopped
    /\ \A id \in 1..rx.holders : \E c \in rx.completed : c.id = id
    /\ last.op = "watch" => \E c \in rx.completed : c.id = returned

====
